---- MODULE Spec2Model ----
(***************************************************************************)
(* Model of main.py (RPD Telegram alert bot): the RSI calculator, the      *)
(* fractal detector, the signal evaluator calculate_rpd_signals and the    *)
(* polling pass check_assets with its dedup state last_signal_bar.         *)
(*                                                                         *)
(* Prices are integers; the floating point values the code computes are    *)
(* modelled as exact fractions <<numerator, denominator>>.  Code indices   *)
(* are 0-based, TLA+ sequences 1-based: At(s, i) reads code index i.       *)
(***************************************************************************)
EXTENDS Integers, Sequences, FiniteSets, TLC

VARIABLES
    phase,            \* position of a single-function run: "input" or "done"
    prices, period, rsi_values,                          \* calculate_rsi_simple
    highs, lows, strength, fractal_highs, fractal_lows,  \* find_simple_fractals
    df, config, result,          \* locals of check_assets / calculate_rpd_signals
    pc, pass, idx,               \* main loop position, pass number, loop index
    last_signal_bar,             \* the dedup state
    visited,                     \* this pass: the instruments whose iteration ran, in order
    passFailed,                  \* this pass: some iteration failed (no data, error, no delivery)
    lastEval,                    \* per instrument: the signal id of its latest iteration
    delivered,                   \* per instrument and anchor: alerts the chat received
    failedBar,                   \* per instrument: the id of its latest failed delivery
    step                         \* the latest loop iteration

vars == <<phase, prices, period, rsi_values, highs, lows, strength,
          fractal_highs, fractal_lows, df, config, result, pc, pass, idx,
          last_signal_bar, visited, passFailed, lastEval, delivered, failedBar, step>>

\* ---- bounds of the model ------------------------------------------------
MaxLen == 5         \* longest series handed to the two indicator functions
MaxPrice == 2       \* prices of those series are 1..MaxPrice
MaxPeriod == 3      \* RSI periods 1..MaxPeriod
MaxStrength == 2    \* fractal strengths 1..MaxStrength
ExtraLen == 1       \* fetched series have up to MinLen + ExtraLen bars
MaxPasses == 3      \* polling passes explored
TailLen == 3        \* trailing bars of a fetched series that may carry a spike
Spike == 10         \* how far a spiking high / low leaves the close
MaxDeliveries == 2  \* deliveries followed per (instrument, anchor)

\* ---- program constants --------------------------------------------------
MinLen == 50
Probability == 85
NeutralRSI == <<50, 1>>
FullRSI == <<100, 1>>
NaN == <<0, 0>>

At(s, i) == s[i + 1]

\* ---- float arithmetic as exact fractions --------------------------------
RECURSIVE GCD(_, _)
GCD(a, b) == IF b = 0 THEN a ELSE GCD(b, a % b)

Norm(r) == LET g == GCD(IF r[1] < 0 THEN -r[1] ELSE r[1], r[2])
           IN  IF g = 0 THEN r ELSE <<r[1] \div g, r[2] \div g>>

Rat(n, d) == Norm(<<n, d>>)
RAdd(a, b) == Norm(<<a[1] * b[2] + b[1] * a[2], a[2] * b[2]>>)
RSub(a, b) == Norm(<<a[1] * b[2] - b[1] * a[2], a[2] * b[2]>>)
RDiv(a, b) == Norm(<<a[1] * b[2], a[2] * b[1]>>)
RLt(a, b) == a[1] * b[2] < b[1] * a[2]
RGt(a, b) == RLt(b, a)
RLe(a, b) == ~RLt(b, a)
Float(n) == <<n, 1>>

RECURSIVE Sum(_)
Sum(s) == IF s = <<>> THEN 0 ELSE Head(s) + Sum(Tail(s))

Abs(x) == IF x < 0 THEN -x ELSE x

\* ---- calculate_rsi_simple ----------------------------------------------
Change(price_list, j) == At(price_list, j) - At(price_list, j - 1)

\* the gains list built by the inner loop for index i
Gains(price_list, i, per) ==
    [k \in 1..per |->
        LET j == i - per + k
        IN  IF j > 0
            THEN IF Change(price_list, j) > 0 THEN Change(price_list, j) ELSE 0
            ELSE 0]

\* the losses list built by the inner loop for index i
Losses(price_list, i, per) ==
    [k \in 1..per |->
        LET j == i - per + k
        IN  IF j > 0
            THEN IF Change(price_list, j) > 0 THEN 0 ELSE Abs(Change(price_list, j))
            ELSE 0]

AvgOf(l) == IF l # <<>> THEN Rat(Sum(l), Len(l)) ELSE Float(0)

RSIFromAverages(avg_gain, avg_loss) ==
    IF avg_loss = Float(0)
    THEN FullRSI
    ELSE LET rs == RDiv(avg_gain, avg_loss)
         IN  RSub(Float(100), RDiv(Float(100), RAdd(Float(1), rs)))

RSIAt(price_list, i, per) ==
    IF i < per
    THEN NeutralRSI
    ELSE RSIFromAverages(AvgOf(Gains(price_list, i, per)),
                         AvgOf(Losses(price_list, i, per)))

calculate_rsi_simple(price_list, per) ==
    [k \in 1..Len(price_list) |-> RSIAt(price_list, k - 1, per)]

\* ---- find_simple_fractals ----------------------------------------------
\* the inner loop over j with its break, for the high side
RECURSIVE ScanHigh(_, _, _, _)
ScanHigh(hs, i, n, j) ==
    IF j > i + n THEN TRUE
    ELSE IF j # i /\ At(hs, j) >= At(hs, i) THEN FALSE
    ELSE ScanHigh(hs, i, n, j + 1)

\* the inner loop over j with its break, for the low side
RECURSIVE ScanLow(_, _, _, _)
ScanLow(ls, i, n, j) ==
    IF j > i + n THEN TRUE
    ELSE IF j # i /\ At(ls, j) <= At(ls, i) THEN FALSE
    ELSE ScanLow(ls, i, n, j + 1)

\* range(strength, len(highs) - strength)
FractalRange(len, n) == {i \in 0..(len - 1) : n <= i /\ i < len - n}

\* a variant that lets a tie pass (> where the code has >=)
IsHighFractalTies(hs, i, n) ==
    \A j \in (i - n)..(i + n) : j # i => At(hs, j) <= At(hs, i)

\* is_high_fractal after the inner loop at index i
IsHighFractal(hs, i, n) == ScanHigh(hs, i, n, i - n)

\* is_low_fractal after the inner loop at index i
IsLowFractal(ls, i, n) == ScanLow(ls, i, n, i - n)

find_simple_fractals(hs, ls, n) ==
    [high |-> [k \in 1..Len(hs) |->
                  IF (k - 1) \in FractalRange(Len(hs), n)
                  THEN IsHighFractal(hs, k - 1, n) ELSE FALSE],
     low  |-> [k \in 1..Len(hs) |->
                  IF (k - 1) \in FractalRange(Len(hs), n)
                  THEN IsLowFractal(ls, k - 1, n) ELSE FALSE]]

\* ---- calculate_rpd_signals ----------------------------------------------
\* a fetched DataFrame: its rows, and whether its columns hold scalars
\* (a frame whose columns do not makes every comparison in the evaluator raise)
EmptyDF == [bars |-> <<>>, wellformed |-> TRUE]
NoCandle == [ts |-> -1, high |-> 0, low |-> 0, close |-> 0]
NoSignal == [signal_type |-> "None", prob |-> 0, candle_data |-> NoCandle]

Column(frame, name) ==
    [k \in 1..Len(frame.bars) |->
        CASE name = "high" -> frame.bars[k].high
          [] name = "low" -> frame.bars[k].low
          [] OTHER -> frame.bars[k].close]

\* a variant that looks one bar further back
CheckIdxBack(len, n) == len - n - 2

\* check_idx = len(df) - n - 1
CheckIdx(len, n) == len - n - 1

IsNa(v) == v = NaN

\* a variant in which the valley test comes first
DecideValleyFirst(is_fractal_high, is_fractal_low, rsi_value, cfg, candle_data) ==
    LET rsi_val == IF ~IsNa(rsi_value) THEN rsi_value ELSE NeutralRSI
    IN  IF is_fractal_low /\ RLt(rsi_val, Float(cfg.rsiBot))
        THEN IF Probability >= cfg.minProbThreshold
             THEN [signal_type |-> "valley", prob |-> Probability,
                   candle_data |-> candle_data]
             ELSE NoSignal
        ELSE IF is_fractal_high /\ RGt(rsi_val, Float(cfg.rsiTop))
        THEN IF Probability >= cfg.minProbThreshold
             THEN [signal_type |-> "peak", prob |-> Probability,
                   candle_data |-> candle_data]
             ELSE NoSignal
        ELSE NoSignal

\* the if / elif / fall-through that turns the anchor's values into a result
Decide(is_fractal_high, is_fractal_low, rsi_value, cfg, candle_data) ==
    LET rsi_val == IF ~IsNa(rsi_value) THEN rsi_value ELSE NeutralRSI
        rsi_top == Float(cfg.rsiTop)
        rsi_bot == Float(cfg.rsiBot)
        min_prob == cfg.minProbThreshold
    IN  IF is_fractal_high /\ RGt(rsi_val, rsi_top)
        THEN IF Probability >= min_prob
             THEN [signal_type |-> "peak", prob |-> Probability,
                   candle_data |-> candle_data]
             ELSE NoSignal
        ELSE IF is_fractal_low /\ RLt(rsi_val, rsi_bot)
        THEN IF Probability >= min_prob
             THEN [signal_type |-> "valley", prob |-> Probability,
                   candle_data |-> candle_data]
             ELSE NoSignal
        ELSE NoSignal

calculate_rpd_signals(frame, cfg) ==
    IF Len(frame.bars) = 0 \/ Len(frame.bars) < MinLen
    THEN NoSignal
    ELSE IF ~frame.wellformed
    THEN NoSignal       \* the except branch
    ELSE LET rsis == calculate_rsi_simple(Column(frame, "close"), cfg.rsiLen)
             fr == find_simple_fractals(Column(frame, "high"),
                                        Column(frame, "low"), cfg.fractalStrength)
             n == cfg.fractalStrength
             check_idx == CheckIdx(Len(frame.bars), n)
         IN  IF check_idx < 0 \/ check_idx >= Len(frame.bars)
             THEN NoSignal
             ELSE Decide(At(fr.high, check_idx), At(fr.low, check_idx),
                         At(rsis, check_idx), cfg, At(frame.bars, check_idx))

\* ---- configuration --------------------------------------------------------
Assets == <<"NIFTY_50", "BITCOIN">>
AssetSet == {Assets[k] : k \in 1..Len(Assets)}

ASSET_CONFIG ==
    [NIFTY_50 |-> [fractalStrength |-> 2, minProbThreshold |-> 70,
                   rsiLen |-> 17, rsiTop |-> 65, rsiBot |-> 40],
     BITCOIN  |-> [fractalStrength |-> 2, minProbThreshold |-> 65,
                   rsiLen |-> 14, rsiTop |-> 70, rsiBot |-> 30]]

\* ---- inputs: the series a fetch can return ------------------------------
Shapes == {"up", "down", "flat", "zig"}
BarKinds == {"n", "H", "L", "B"}

CloseAt(shape, i) ==
    CASE shape = "up" -> 20 + i
      [] shape = "down" -> 100 - i
      [] shape = "flat" -> 50
      [] OTHER -> 30 + (i \div 2) + (IF i % 2 = 1 THEN 2 ELSE 0)

\* bar i of a series of length len: low <= close <= high, timestamps ascending
BarAt(len, shape, tail, i) ==
    LET kind == IF i >= len - TailLen THEN tail[i - (len - TailLen) + 1] ELSE "n"
        c == CloseAt(shape, i)
    IN  [ts |-> i,
         high |-> c + (IF kind \in {"H", "B"} THEN Spike ELSE 1),
         low |-> c - (IF kind \in {"L", "B"} THEN Spike ELSE 1),
         close |-> c]

MkSeries(len, shape, tail) ==
    [bars |-> [k \in 1..len |-> BarAt(len, shape, tail, k - 1)],
     wellformed |-> TRUE]

Tails == [1..TailLen -> BarKinds]
SeriesLens == (MinLen - 1)..(MinLen + ExtraLen)
MalformedDF == [MkSeries(MinLen, "up", [k \in 1..TailLen |-> "n"])
                    EXCEPT !.wellformed = FALSE]

EvalSeries ==
    {MkSeries(len, shape, tail) : len \in SeriesLens, shape \in Shapes, tail \in Tails}
        \cup {EmptyDF, MalformedDF}

EvalConfigs ==
    {ASSET_CONFIG[a] : a \in AssetSet} \cup
    {[fractalStrength |-> n, minProbThreshold |-> mp, rsiLen |-> rl,
      rsiTop |-> th[1], rsiBot |-> th[2]] :
        n \in 1..MaxStrength, mp \in {65, 90}, rl \in {14, MinLen - 1},
        th \in {<<70, 30>>, <<40, 80>>}}

SeqsUpTo(n, S) == UNION {[1..m -> S] : m \in 0..n}

\* ---- initial values ---------------------------------------------------------
IndicatorIdle ==
    /\ prices = <<>> /\ period = 1 /\ rsi_values = <<>>
    /\ highs = <<>> /\ lows = <<>> /\ strength = 1
    /\ fractal_highs = <<>> /\ fractal_lows = <<>>

InitialBar == [kind |-> "int", val |-> 0]     \* the integer 0
NoneId == [kind |-> "none", val |-> 0]        \* Python None
StrOf(ts) == [kind |-> "str", val |-> ts]     \* str(candle_data.name)

AnchorTs == 0..(MinLen + ExtraLen)
NoStep == [asset |-> "", sig |-> NoneId, outcome |-> "unseen", prevSig |-> NoneId]

ProcessIdle ==
    /\ pc = "start" /\ pass = 1 /\ idx = 1
    /\ last_signal_bar = [a \in AssetSet |-> InitialBar]
    /\ visited = <<>>
    /\ passFailed = FALSE
    /\ lastEval = [a \in AssetSet |-> NoneId]
    /\ delivered = [a \in AssetSet |-> [t \in AnchorTs |-> 0]]
    /\ failedBar = [a \in AssetSet |-> NoneId]
    /\ step = NoStep

procVars == <<pc, pass, idx, last_signal_bar, visited, passFailed, lastEval,
              delivered, failedBar, step>>
indVars == <<prices, period, rsi_values, highs, lows, strength,
             fractal_highs, fractal_lows>>

\* ---- calculate_rsi_simple applied to bounded inputs -------------------------
InitRSI ==
    /\ phase = "input"
    /\ prices \in SeqsUpTo(MaxLen, 1..MaxPrice)
    /\ period \in 1..MaxPeriod
    /\ rsi_values = <<>>
    /\ highs = <<>> /\ lows = <<>> /\ strength = 1
    /\ fractal_highs = <<>> /\ fractal_lows = <<>>
    /\ df = EmptyDF /\ config = ASSET_CONFIG.BITCOIN /\ result = NoSignal
    /\ ProcessIdle

ComputeRSI ==
    /\ phase = "input"
    /\ rsi_values' = calculate_rsi_simple(prices, period)
    /\ phase' = "done"
    /\ UNCHANGED <<prices, period, highs, lows, strength, fractal_highs,
                   fractal_lows, df, config, result, procVars>>

SpecRSI == InitRSI /\ [][ComputeRSI]_vars

\* ---- find_simple_fractals applied to bounded inputs -------------------------
InitFractals ==
    /\ phase = "input"
    /\ highs \in SeqsUpTo(MaxLen, 1..MaxPrice)
    /\ lows \in [1..Len(highs) -> 1..MaxPrice]
    /\ \A k \in 1..Len(highs) : lows[k] <= highs[k]
    /\ strength \in 1..MaxStrength
    /\ fractal_highs = <<>> /\ fractal_lows = <<>>
    /\ prices = <<>> /\ period = 1 /\ rsi_values = <<>>
    /\ df = EmptyDF /\ config = ASSET_CONFIG.BITCOIN /\ result = NoSignal
    /\ ProcessIdle

ComputeFractals ==
    /\ phase = "input"
    /\ LET fr == find_simple_fractals(highs, lows, strength)
       IN  fractal_highs' = fr.high /\ fractal_lows' = fr.low
    /\ phase' = "done"
    /\ UNCHANGED <<prices, period, rsi_values, highs, lows, strength,
                   df, config, result, procVars>>

SpecFractals == InitFractals /\ [][ComputeFractals]_vars

\* ---- calculate_rpd_signals applied to bounded inputs ------------------------
InitEval ==
    /\ phase = "input"
    /\ df \in EvalSeries
    /\ config \in EvalConfigs
    /\ result = NoSignal
    /\ IndicatorIdle
    /\ ProcessIdle

Evaluate ==
    /\ phase = "input"
    /\ result' = calculate_rpd_signals(df, config)
    /\ phase' = "done"
    /\ UNCHANGED <<df, config, indVars, procVars>>

SpecEval == InitEval /\ [][Evaluate]_vars

\* ---- check_assets and the main loop ----------------------------------------
\* the series a fetch returns in the polling model: frames of every length
\* with a spiking high on a rising market at the bar the evaluator looks at,
\* one frame with a spiking low on a falling market, one without a spike, one
\* too short, an empty one and a malformed one
AnchorTail(kind) == [k \in 1..TailLen |-> IF k = TailLen - 2 THEN kind ELSE "n"]

FetchMenu ==
    {MkSeries(len, "up", AnchorTail("H")) : len \in SeriesLens}
        \cup {MkSeries(MinLen, "down", AnchorTail("L")),
              MkSeries(MinLen, "up", AnchorTail("n")),
              EmptyDF, MalformedDF}

\* a variant without the comparison against the stored id
IsNovelAlways(signal_type, current_signal_id, stored) == signal_type # "None"

\* signal_type and current_signal_id != last_signal_bar.get(asset_name)
IsNovel(signal_type, current_signal_id, stored) ==
    signal_type # "None" /\ current_signal_id # stored

\* a variant that writes the id into every instrument's entry
StoreAll(bars, asset_name, current_signal_id) ==
    [a \in DOMAIN bars |-> current_signal_id]

\* last_signal_bar[asset_name] = current_signal_id
Store(bars, asset_name, current_signal_id) ==
    [bars EXCEPT ![asset_name] = current_signal_id]

\* a variant that puts the previous entry back when delivery fails
AfterSendRollback(bars, before, send_ok) == IF send_ok THEN bars ELSE before

\* send_telegram_alert: a failure is logged and swallowed, the dedup state stays
AfterSend(bars, before, send_ok) == bars

\* a variant that leaves the loop on an empty frame
NextIdxReturn(i, outcome) == IF outcome = "empty" THEN Len(Assets) + 1 ELSE i + 1

\* the for loop moves on to the next instrument whatever the iteration did
NextIdx(i, outcome) == i + 1

\* the evaluator on every frame of the menu for every instrument, tabulated
\* (it is a function of the frame and the config only)
SignalTable ==
    [fetched \in FetchMenu |->
        [a \in AssetSet |-> calculate_rpd_signals(fetched, ASSET_CONFIG[a])]]

\* what one iteration of the loop body does with the fetched frame; r is what
\* calculate_rpd_signals returned for it (unused when the frame is empty)
Iteration(asset_name, fetched, r, send_ok) ==
    IF Len(fetched.bars) = 0
    THEN [result |-> result, sig |-> NoneId, outcome |-> "empty",
          bars |-> last_signal_bar]
    ELSE LET current_signal_id ==
                 IF r.signal_type # "None" THEN StrOf(r.candle_data.ts) ELSE NoneId
         IN  IF IsNovel(r.signal_type, current_signal_id, last_signal_bar[asset_name])
             THEN [result |-> r, sig |-> current_signal_id,
                   outcome |-> IF send_ok THEN "sent" ELSE "send_failed",
                   bars |-> AfterSend(Store(last_signal_bar, asset_name, current_signal_id),
                                      last_signal_bar, send_ok)]
             ELSE [result |-> r, sig |-> current_signal_id,
                   outcome |-> IF r.signal_type # "None" THEN "repeat"
                               ELSE IF ~fetched.wellformed THEN "error"
                               ELSE "none",
                   bars |-> last_signal_bar]

Init ==
    /\ phase = "input"
    /\ df = EmptyDF /\ config = ASSET_CONFIG.NIFTY_50 /\ result = NoSignal
    /\ IndicatorIdle
    /\ ProcessIdle

\* keep_alive(), the start-up alert, and entry into the while loop
Startup ==
    /\ pc = "start"
    /\ pc' = "checking"
    /\ UNCHANGED <<phase, indVars, df, config, result, pass, idx, last_signal_bar,
                   visited, passFailed, lastEval, delivered, failedBar, step>>

\* one iteration of the for loop of check_assets
CheckAsset ==
    /\ pc = "checking"
    /\ idx <= Len(Assets)
    /\ \E fetched \in FetchMenu, send_ok \in BOOLEAN :
         \E it \in {Iteration(Assets[idx], fetched,
                              SignalTable[fetched][Assets[idx]], send_ok)} :
         LET asset_name == Assets[idx]
         IN  \* delivery succeeds or fails only where delivery is attempted
             /\ it.outcome \notin {"sent", "send_failed"} => send_ok
             /\ it.outcome = "sent" => delivered[asset_name][it.sig.val] < MaxDeliveries
             /\ df' = fetched
             /\ config' = ASSET_CONFIG[asset_name]
             /\ result' = it.result
             /\ last_signal_bar' = it.bars
             /\ delivered' =
                    IF it.outcome = "sent"
                    THEN [delivered EXCEPT ![asset_name][it.sig.val] = @ + 1]
                    ELSE delivered
             /\ failedBar' =
                    IF it.outcome = "send_failed"
                    THEN [failedBar EXCEPT ![asset_name] = it.sig]
                    ELSE failedBar
             /\ step' = [asset |-> asset_name, sig |-> it.sig, outcome |-> it.outcome,
                         prevSig |-> lastEval[asset_name]]
             /\ lastEval' = [lastEval EXCEPT ![asset_name] = it.sig]
             /\ visited' = Append(visited, asset_name)
             /\ passFailed' = (passFailed \/ it.outcome \in {"empty", "error", "send_failed"})
             /\ idx' = NextIdx(idx, it.outcome)
    /\ UNCHANGED <<phase, indVars, pc, pass>>

\* check_assets returned: "Cycle complete", sleep, next turn of the while loop
CycleComplete ==
    /\ pc = "checking"
    /\ idx > Len(Assets)
    /\ pass < MaxPasses
    /\ pass' = pass + 1
    /\ idx' = 1
    /\ visited' = <<>>
    /\ passFailed' = FALSE
    /\ UNCHANGED <<phase, indVars, df, config, result, pc, last_signal_bar,
                   lastEval, delivered, failedBar, step>>

Next == Startup \/ CheckAsset \/ CycleComplete

Spec == Init /\ [][Next]_vars

\* ======================= properties of the polling pass ====================

\* C1: for every instrument and anchor timestamp T at most one notification
\* is sent for (instrument, T) during the life of the process.
C1_AtMostOncePerAnchor ==
    \A a \in AssetSet : \A t \in AnchorTs : delivered[a][t] <= 1

\* C2: when the evaluator yields a signal with anchor T for an instrument in
\* two consecutive passes the second pass sends nothing and stores nothing; a
\* signal with another anchor T' after a signal with T is novel again (stored,
\* alert handed to send_telegram_alert); a signal whose anchor is not the
\* stored one is always treated as novel.
C2_RepeatSuppressedNewAnchorNovel ==
    [][(pc = "checking" /\ idx <= Len(Assets) /\ idx' # idx) =>
          LET a == Assets[idx]
              cur == step'.sig
              prev == lastEval[a]
          IN  /\ (cur.kind = "str" /\ prev = cur) =>
                    /\ step'.outcome = "repeat"
                    /\ last_signal_bar' = last_signal_bar
                    /\ delivered' = delivered /\ failedBar' = failedBar
              /\ (cur.kind = "str" /\ prev.kind = "str" /\ prev # cur) =>
                    /\ step'.outcome \in {"sent", "send_failed"}
                    /\ last_signal_bar'[a] = cur
              /\ (cur.kind = "str" /\ last_signal_bar[a] # cur) =>
                    /\ step'.outcome \in {"sent", "send_failed"}
                    /\ last_signal_bar'[a] = cur]_vars

\* an instrument yielded the anchor of its previous pass again, the iteration
\* sent nothing, and that anchor has been delivered exactly once
C2_Witness ==
    /\ step.outcome = "repeat" /\ step.sig.kind = "str"
    /\ step.prevSig = step.sig
    /\ last_signal_bar[step.asset] = step.sig
    /\ delivered[step.asset][step.sig.val] = 1

\* C8: last_signal_bar changes only in an iteration whose evaluation returned
\* a signal with an id different from the instrument's stored entry, and then
\* only that entry changes, to the new id; iterations with an empty series, no
\* signal, a repeated id or an evaluation error change nothing.
C8_DedupStateFrame ==
    [][/\ last_signal_bar' # last_signal_bar =>
            /\ pc = "checking" /\ idx <= Len(Assets) /\ idx' # idx
            /\ step'.sig.kind = "str"
            /\ step'.sig # last_signal_bar[Assets[idx]]
            /\ last_signal_bar' = [last_signal_bar EXCEPT ![Assets[idx]] = step'.sig]
       /\ (pc = "checking" /\ idx <= Len(Assets) /\ idx' # idx) =>
            /\ step'.outcome \in {"empty", "none", "repeat", "error"} =>
                  last_signal_bar' = last_signal_bar
            /\ \A b \in AssetSet \ {Assets[idx]} :
                  last_signal_bar'[b] = last_signal_bar[b]]_vars

\* one instrument's entry was just written while another still holds its
\* initial value
C8_Witness ==
    /\ step.outcome \in {"sent", "send_failed"}
    /\ last_signal_bar[step.asset] = step.sig
    /\ \E b \in AssetSet \ {step.asset} : last_signal_bar[b] = InitialBar

\* C9: within a pass the instruments are handled one after another in
\* configuration order, a failing iteration (empty series, evaluation error,
\* failed delivery) does not end the pass: when the loop is over every
\* configured instrument has been handled, and the next pass can start.
C9_PassCoversEveryInstrument ==
    pc = "checking" =>
        /\ Len(visited) = idx - 1
        /\ \A k \in 1..Len(visited) : visited[k] = Assets[k]
        /\ idx > Len(Assets) =>
              /\ {visited[k] : k \in 1..Len(visited)} = AssetSet
              /\ pass < MaxPasses => ENABLED CycleComplete

\* an earlier instrument of a later pass failed and the pass still went on to
\* the last instrument, which sent its alert
C9_Witness ==
    /\ pc = "checking" /\ idx > Len(Assets) /\ pass > 1
    /\ Len(visited) = Len(Assets)
    /\ passFailed
    /\ step.asset = Assets[Len(Assets)] /\ step.outcome = "sent"

\* C10: the anchor id is stored although delivery failed, and once delivery
\* for (instrument, T) has failed, an iteration that yields T while T is the
\* stored id sends nothing: the alert is not retried.
C10_FailedDeliveryNotRetried ==
    [][(pc = "checking" /\ idx <= Len(Assets) /\ idx' # idx) =>
          LET a == Assets[idx]
          IN  /\ step'.outcome = "send_failed" =>
                    /\ last_signal_bar'[a] = step'.sig
                    /\ delivered' = delivered
              /\ (/\ step'.sig.kind = "str"
                  /\ failedBar[a] = step'.sig
                  /\ last_signal_bar[a] = step'.sig) =>
                    /\ step'.outcome = "repeat"
                    /\ delivered' = delivered]_vars

\* an anchor whose delivery failed came up again, was suppressed, and has
\* never been delivered
C10_Witness ==
    /\ step.outcome = "repeat"
    /\ step.prevSig = step.sig
    /\ failedBar[step.asset] = step.sig
    /\ delivered[step.asset][step.sig.val] = 0

\* ======================= properties of the indicator functions =============

\* C6: every defined RSI value (index i >= P) lies in [0,100], and it is 100
\* exactly when the trailing loss over the P changes ending at i is zero and
\* the trailing gain is greater than zero.
C6_RSIHundredIffGainOnly ==
    phase = "done" /\ Len(rsi_values) = Len(prices) =>
        \A i \in period..(Len(prices) - 1) :
            LET v == At(rsi_values, i)
                ch == [k \in 1..period |-> At(prices, i - period + k)
                                            - At(prices, i - period + k - 1)]
                gain == Sum([k \in 1..period |-> IF ch[k] > 0 THEN ch[k] ELSE 0])
                loss == Sum([k \in 1..period |-> IF ch[k] < 0 THEN -ch[k] ELSE 0])
            IN  /\ RLe(Float(0), v) /\ RLe(v, Float(100))
                /\ (v = Float(100)) <=> (loss = 0 /\ gain > 0)

\* C7: is_fractal_high[i] holds iff N <= i <= L-1-N and no other position of
\* the window [i-N, i+N] has a high >= high[i]; is_fractal_low[i] likewise with
\* lows and <=; every index outside the range is flagged false.
C7_FractalIffStrictExtreme ==
    phase = "done" /\ strength >= 1 =>
        /\ Len(fractal_highs) = Len(highs)
        /\ Len(fractal_lows) = Len(highs)
        /\ \A i \in 0..(Len(highs) - 1) :
              /\ At(fractal_highs, i) <=>
                    (/\ strength <= i /\ i <= Len(highs) - 1 - strength
                     /\ \A j \in (i - strength)..(i + strength) :
                           j # i => At(highs, j) < At(highs, i))
              /\ At(fractal_lows, i) <=>
                    (/\ strength <= i /\ i <= Len(highs) - 1 - strength
                     /\ \A j \in (i - strength)..(i + strength) :
                           j # i => At(lows, j) > At(lows, i))

\* a run that flagged a strict maximum and refused a plateaued one
C7_Witness ==
    /\ phase = "done"
    /\ \E i \in 0..(Len(highs) - 1) : At(fractal_highs, i)
    /\ \E i \in 0..(Len(highs) - 1) :
          /\ strength <= i /\ i <= Len(highs) - 1 - strength
          /\ \A j \in (i - strength)..(i + strength) : At(highs, j) <= At(highs, i)
          /\ ~At(fractal_highs, i)

\* ======================= properties of the evaluator =======================

\* C3 (as stated): the bar a returned signal carries is the bar at index
\* (L-1) - (N+1).
C3_AnchorIsLastMinusNPlus1 ==
    phase = "done" /\ result.signal_type # "None" =>
        result.candle_data =
            At(df.bars, (Len(df.bars) - 1) - (config.fractalStrength + 1))

\* C3 (amended): the bar calculate_rpd_signals inspects is the bar at index
\* (L-1) - N: a returned signal carries that bar, a Peak means that bar is a
\* fractal high with RSI above rsiTop, a Valley that it is a fractal low with
\* RSI below rsiBot, and a bar there that meets the Peak test and the
\* probability threshold is reported.
C3_AnchorIsLastMinusN ==
    phase = "done" /\ df.wellformed /\ Len(df.bars) >= MinLen =>
        LET a == (Len(df.bars) - 1) - config.fractalStrength
            fr == find_simple_fractals(Column(df, "high"), Column(df, "low"),
                                       config.fractalStrength)
            rsi == At(calculate_rsi_simple(Column(df, "close"), config.rsiLen), a)
        IN  /\ result.signal_type # "None" => result.candle_data = At(df.bars, a)
            /\ result.signal_type = "peak" =>
                  At(fr.high, a) /\ RGt(rsi, Float(config.rsiTop))
            /\ result.signal_type = "valley" =>
                  At(fr.low, a) /\ RLt(rsi, Float(config.rsiBot))
            /\ (At(fr.high, a) /\ RGt(rsi, Float(config.rsiTop))
                    /\ 85 >= config.minProbThreshold)
                  => result.signal_type = "peak"

\* a signal whose bar is a fractal high while the bar before it is not
C3_Witness ==
    /\ phase = "done" /\ result.signal_type = "peak"
    /\ LET a == (Len(df.bars) - 1) - config.fractalStrength
           fr == find_simple_fractals(Column(df, "high"), Column(df, "low"),
                                      config.fractalStrength)
       IN  At(fr.high, a) /\ ~At(fr.high, a - 1)
           /\ result.candle_data.ts = At(df.bars, a).ts

\* C4: when the anchor index is smaller than the RSI period (the RSI there is
\* undefined), calculate_rpd_signals returns no signal.
C4_UndefinedRSINoSignal ==
    (/\ phase = "done" /\ df.wellformed /\ Len(df.bars) >= MinLen
     /\ (Len(df.bars) - 1) - config.fractalStrength < config.rsiLen)
        => result.signal_type = "None"

\* C5: Peak iff fractal high at the anchor, RSI > rsiTop and 85 >= the
\* threshold; Valley iff the Peak condition fails, fractal low at the anchor,
\* RSI < rsiBot and 85 >= the threshold; otherwise no signal.
C5_PeakValleyRule ==
    phase = "done" /\ df.wellformed /\ Len(df.bars) >= MinLen =>
        LET a == (Len(df.bars) - 1) - config.fractalStrength
            fr == find_simple_fractals(Column(df, "high"), Column(df, "low"),
                                       config.fractalStrength)
            rsi == At(calculate_rsi_simple(Column(df, "close"), config.rsiLen), a)
            peakCond == At(fr.high, a) /\ RGt(rsi, Float(config.rsiTop))
            valleyCond == At(fr.low, a) /\ RLt(rsi, Float(config.rsiBot))
            confident == 85 >= config.minProbThreshold
        IN  /\ result.signal_type \in {"peak", "valley", "None"}
            /\ (result.signal_type = "peak") <=> (peakCond /\ confident)
            /\ (result.signal_type = "valley") <=>
                  (~peakCond /\ valleyCond /\ confident)
            /\ result.signal_type # "None" => result.prob = 85

\* both conditions fire at the anchor and Peak is returned
C5_Witness ==
    /\ phase = "done" /\ result.signal_type = "peak"
    /\ LET a == (Len(df.bars) - 1) - config.fractalStrength
           fr == find_simple_fractals(Column(df, "high"), Column(df, "low"),
                                      config.fractalStrength)
           rsi == At(calculate_rsi_simple(Column(df, "close"), config.rsiLen), a)
       IN  At(fr.low, a) /\ RLt(rsi, Float(config.rsiBot))
           /\ RLt(Float(0), rsi) /\ RLt(rsi, Float(100))
====
